---- MODULE Spec2Model ----
(***************************************************************************)
(* Model of gameresult_to_csv.py: flatten_value, extract_fields and main.  *)
(*                                                                         *)
(* Python values are tagged records:                                       *)
(*   None   [tag |-> "null"]                                               *)
(*   bool   [tag |-> "bool", b |-> TRUE]                                   *)
(*   int    [tag |-> "num",  n |-> 1]                                      *)
(*   str    [tag |-> "str",  s |-> "a"]                                    *)
(*   list   [tag |-> "list", items |-> <<v1, v2>>]                         *)
(*   dict   [tag |-> "dict", pairs |-> << <<k1, v1>>, <<k2, v2>> >>]       *)
(* A dict keeps its pairs in insertion order, as Python's dict does; its   *)
(* keys are strings and pairwise different, as json.load produces them.    *)
(* Numbers are integers; strings hold no quote, backslash or control       *)
(* character, so repr() of a string is the string between single quotes.   *)
(***************************************************************************)
EXTENDS Integers, Sequences, FiniteSets, TLC

VARIABLES
    pc,           \* position of the running function
    value,        \* flatten_value: its argument
    flat,         \* flatten_value: its return value
    game_result,  \* extract_fields: its argument
    row,          \* extract_fields: its outcome
    input_file,   \* main: what open()/json.load() of GameResult2.json meets
    data,         \* main: the parsed document
    i,            \* main: number of records the loop has processed
    rows,         \* main: the rows collected so far
    stdout,       \* main: the messages printed to sys.stdout
    stderr,       \* main: the messages printed to sys.stderr
    exit_status,  \* main: <<>> while running, <<code>> once the process ended
    output_file   \* main: GameResult2.csv

vars == <<pc, value, flat, game_result, row, input_file, data, i, rows,
          stdout, stderr, exit_status, output_file>>

(***************************************************************************)
(* Python values                                                           *)
(***************************************************************************)
None == [tag |-> "null"]

Bool(b) == [tag |-> "bool", b |-> b]

Num(n) == [tag |-> "num", n |-> n]

Str(s) == [tag |-> "str", s |-> s]

List(items) == [tag |-> "list", items |-> items]

Dict(pairs) == [tag |-> "dict", pairs |-> pairs]

IsNone(v) == v.tag = "null"

IsBool(v) == v.tag = "bool"

\* isinstance(v, (int, float)): bool is a subclass of int
IsIntOrFloat(v) == v.tag \in {"num", "bool"}

IsStr(v) == v.tag = "str"

IsList(v) == v.tag = "list"

IsDict(v) == v.tag = "dict"

\* key in d
HasKey(d, key) == \E j \in 1..Len(d.pairs) : d.pairs[j][1] = key

\* d[key], for a key that d has
Item(d, key) == d.pairs[CHOOSE j \in 1..Len(d.pairs) : d.pairs[j][1] = key][2]

\* d.get(key, default)
Get(d, key, default) == IF HasKey(d, key) THEN Item(d, key) ELSE default

\* list(d.keys())
Keys(d) == [j \in 1..Len(d.pairs) |-> d.pairs[j][1]]

\* bool(v): the truth value Python gives an object
Truthy(v) ==
    CASE IsNone(v) -> FALSE
      [] IsBool(v) -> v.b
      [] v.tag = "num" -> v.n # 0
      [] IsStr(v) -> v.s # ""
      [] IsList(v) -> Len(v.items) > 0
      [] IsDict(v) -> Len(v.pairs) > 0

RECURSIVE JoinFrom(_, _, _)
JoinFrom(sep, strs, j) ==
    IF j > Len(strs) THEN "" ELSE sep \o strs[j] \o JoinFrom(sep, strs, j + 1)

\* sep.join(strs)
Join(sep, strs) ==
    IF Len(strs) = 0 THEN "" ELSE strs[1] \o JoinFrom(sep, strs, 2)

RECURSIVE PyRepr(_)
\* repr(v)
PyRepr(v) ==
    CASE IsNone(v) -> "None"
      [] IsBool(v) -> IF v.b THEN "True" ELSE "False"
      [] v.tag = "num" -> ToString(v.n)
      [] IsStr(v) -> "'" \o v.s \o "'"
      [] IsList(v) ->
            "[" \o Join(", ", [j \in 1..Len(v.items) |-> PyRepr(v.items[j])]) \o "]"
      [] IsDict(v) ->
            "{" \o Join(", ", [j \in 1..Len(v.pairs) |->
                        "'" \o v.pairs[j][1] \o "': " \o PyRepr(v.pairs[j][2])])
                \o "}"

\* str(v), which is also what an f-string field {v} renders
PyStr(v) == IF IsStr(v) THEN v.s ELSE PyRepr(v)

(***************************************************************************)
(* flatten_value                                                           *)
(***************************************************************************)
RECURSIVE flatten_value(_)

\* a slip of FlattenList: the elements are flattened recursively
FlattenList_Recursive(v) ==
    Str(Join(", ", [j \in 1..Len(v.items) |-> PyStr(flatten_value(v.items[j]))]))

\* the list branch: ', '.join(str(item) for item in value)
FlattenList(v) ==
    Str(Join(", ", [j \in 1..Len(v.items) |-> PyStr(v.items[j])]))

\* a slip of FlattenDict: nested arrays and objects are not flattened
FlattenDict_NoRecursion(v) ==
    IF HasKey(v, "__type") /\ Item(v, "__type") = Str("Date")
    THEN Get(v, "iso", Str(""))
    ELSE IF Len(v.pairs) = 0 THEN Str("")
    ELSE Str(Join("; ", [j \in 1..Len(v.pairs) |->
             v.pairs[j][1] \o ": " \o PyStr(v.pairs[j][2])]))

\* the dict branch
FlattenDict(v) ==
    IF HasKey(v, "__type") /\ Item(v, "__type") = Str("Date")
    THEN Get(v, "iso", Str(""))
    ELSE IF Len(v.pairs) = 0 THEN Str("")
    ELSE Str(Join("; ", [j \in 1..Len(v.pairs) |->
             v.pairs[j][1] \o ": " \o
             (IF IsList(v.pairs[j][2]) \/ IsDict(v.pairs[j][2])
              THEN PyStr(flatten_value(v.pairs[j][2]))
              ELSE PyStr(v.pairs[j][2]))]))

\* a slip of flatten_value: the number test comes before the bool test
flatten_value_NumberFirst(v) ==
    IF IsNone(v) THEN Str("")
    ELSE IF IsIntOrFloat(v) THEN v
    ELSE IF IsBool(v) THEN Str(PyStr(v))
    ELSE IF IsStr(v) THEN v
    ELSE IF IsList(v) THEN FlattenList(v)
    ELSE IF IsDict(v) THEN FlattenDict(v)
    ELSE Str(PyStr(v))

flatten_value(v) ==
    IF IsNone(v) THEN Str("")
    ELSE IF IsBool(v) THEN Str(PyStr(v))
    ELSE IF IsIntOrFloat(v) THEN v
    ELSE IF IsStr(v) THEN v
    ELSE IF IsList(v) THEN FlattenList(v)
    ELSE IF IsDict(v) THEN FlattenDict(v)
    ELSE Str(PyStr(v))

(***************************************************************************)
(* Bounded sets of JSON values                                             *)
(***************************************************************************)
\* a value's nodes are itself and the nodes of its elements
MaxNodes == 4

\* the scalars that occur inside arrays and objects
Leaves == {None, Bool(TRUE), Num(1), Str("Date"), Str("a")}

\* further scalars, met at the top level only
TopScalars == {Bool(FALSE), Num(0), Num(-2), Str(""), Str("2024-01-01T00:00:00Z")}

\* the keys of nested objects
InnerKeys == {"__type", "iso", "x"}

\* the sequences of n different keys of K
KeySeqs(K, n) == {ks \in [1..n -> K] : \A a, b \in 1..n : ks[a] = ks[b] => a = b}

\* the object that gives the values of s the keys ks, in order
Zip(ks, s) == Dict([j \in 1..Len(s) |-> <<ks[j], s[j]>>])

RECURSIVE Tables(_, _, _)
\* V[n]: the JSON values of exactly n nodes, n in 1..N;
\* S[m + 1]: the sequences of JSON values of m nodes in all, m in 0..N-1
Tables(V, S, N) ==
    IF Len(V) >= N THEN [V |-> V, S |-> S]
    ELSE LET n == Len(V) + 1
             Sn == UNION {{<<v>> \o s : v \in V[k], s \in S[n - k]} : k \in 1..(n - 1)}
             Vn == {List(s) : s \in Sn}
                   \cup UNION {{Zip(ks, s) : ks \in KeySeqs(InnerKeys, Len(s))} : s \in Sn}
         IN Tables(Append(V, Vn), Append(S, Sn), N)

\* the values that are elements of a value of at most MaxNodes nodes
Inner == Tables(<<Leaves \cup {List(<<>>), Dict(<<>>)}>>, <<{<<>>}>>, MaxNodes - 1)

\* the record {key: v}, or v itself without a key
Wrap(key, v) == IF key = "" THEN v ELSE Dict(<< <<key, v>> >>)

\* x is Wrap(key, v) for a JSON value v of at most N nodes (N <= MaxNodes) or
\* a scalar v of TopScalars
IsWrapped(x, key, N) ==
    \/ \E v \in TopScalars \cup Inner.V[1] : x = Wrap(key, v)
    \/ \E n \in 2..N : \E k \in 1..(n - 1) :
         \E v \in Inner.V[k], s \in Inner.S[n - k] :
             \/ x = Wrap(key, List(<<v>> \o s))
             \/ \E ks \in KeySeqs(InnerKeys, 1 + Len(s)) :
                    x = Wrap(key, Zip(ks, <<v>> \o s))

(***************************************************************************)
(* flatten_value called once on a JSON value                               *)
(***************************************************************************)
Unset == [tag |-> "unset"]

NoFile == [exists |-> FALSE, header |-> <<>>, lines |-> <<>>]

MainIdle ==
    /\ input_file = "none"
    /\ data = Unset
    /\ i = 0
    /\ rows = <<>>
    /\ stdout = <<>>
    /\ stderr = <<>>
    /\ exit_status = <<>>
    /\ output_file = NoFile

InitFlatten ==
    /\ pc = "flatten_value"
    /\ IsWrapped(value, "", MaxNodes)
    /\ flat = Unset
    /\ game_result = Unset
    /\ row = Unset
    /\ MainIdle

FlattenCall ==
    /\ pc = "flatten_value"
    /\ flat' = flatten_value(value)
    /\ pc' = "returned"
    /\ UNCHANGED <<value, game_result, row, input_file, data, i, rows,
                   stdout, stderr, exit_status, output_file>>

NextFlatten == FlattenCall

SpecFlatten == InitFlatten /\ [][NextFlatten]_vars

Returned == pc = "returned"

\* {"__type": "Date", ...}
IsDateWrapper(v) ==
    /\ IsDict(v)
    /\ \E j \in 1..Len(v.pairs) : v.pairs[j] = <<"__type", Str("Date")>>

\* C5: flatten_value returns a string, or the unchanged number when its input
\* is a number, for every JSON value
C5_AlwaysText ==
    Returned => IF value.tag = "num" THEN flat = value ELSE IsStr(flat)

\* C6: null gives "", a boolean gives "True" or "False" and is never passed
\* through as a number, a number and a string are returned unchanged
C6_ScalarRules ==
    Returned =>
        /\ IsNone(value) => flat = Str("")
        /\ value = Bool(TRUE) => flat = Str("True")
        /\ value = Bool(FALSE) => flat = Str("False")
        /\ value.tag = "num" => flat = value
        /\ IsStr(value) => flat = value

C6_Witness == Returned /\ value = Bool(TRUE) /\ flat = Str("True")

RECURSIVE PairsText(_)
\* the "key: value" entries of an object joined with "; ", in key order
PairsText(pairs) ==
    LET v == pairs[1][2]
        entry == pairs[1][1] \o ": " \o
                 (IF IsList(v) \/ IsDict(v) THEN PyStr(flatten_value(v)) ELSE PyStr(v))
    IN IF Len(pairs) = 1 THEN entry ELSE entry \o "; " \o PairsText(Tail(pairs))

ExampleObject ==
    Dict(<< <<"x", Num(1)>>, <<"y", List(<<Num(2), Num(3)>>)>> >>)

ExampleDate ==
    Dict(<< <<"__type", Str("Date")>>, <<"iso", Str("2024-01-01T00:00:00Z")>> >>)

ExampleObjectFlat == flatten_value(ExampleObject)

ExampleDateFlat == flatten_value(ExampleDate)

\* C7: a date wrapper gives its 'iso' value, or "" without one; an empty
\* object gives ""; any other object gives its "key: value" entries joined
\* with "; " in key order, nested arrays and objects flattened recursively
C7_ObjectRule ==
    /\ ExampleObjectFlat = Str("x: 1; y: 2, 3")
    /\ ExampleDateFlat = Str("2024-01-01T00:00:00Z")
    /\ Returned /\ IsDict(value) =>
        IF IsDateWrapper(value)
        THEN \/ \E j \in 1..Len(value.pairs) :
                    value.pairs[j][1] = "iso" /\ flat = value.pairs[j][2]
             \/ ~HasKey(value, "iso") /\ flat = Str("")
        ELSE IF value.pairs = <<>> THEN flat = Str("")
        ELSE flat = Str(PairsText(value.pairs))

C7_Witness ==
    /\ Returned
    /\ value = Dict(<< <<"x", List(<<Num(1), Str("a")>>)>> >>)
    /\ flat = Str("x: 1, a")

RECURSIVE ItemsText(_)
\* the textual forms of the elements joined with ", ", in order
ItemsText(items) ==
    IF Len(items) = 0 THEN ""
    ELSE IF Len(items) = 1 THEN PyStr(items[1])
    ELSE PyStr(items[1]) \o ", " \o ItemsText(Tail(items))

ExampleArrayFlat == flatten_value(List(<<Str("a"), Str("b"), Str("c")>>))

\* C8: an array gives the textual forms of its elements joined with ", " in
\* order, "" when empty; nested arrays and objects keep their default
\* textual representation
C8_ArrayRule ==
    /\ ExampleArrayFlat = Str("a, b, c")
    /\ Returned /\ IsList(value) => flat = Str(ItemsText(value.items))

C8_Witness ==
    /\ Returned
    /\ value = List(<<Dict(<< <<"__type", Str("Date")>>, <<"iso", Str("a")>> >>)>>)
    /\ flat = Str("{'__type': 'Date', 'iso': 'a'}")

(***************************************************************************)
(* extract_fields                                                          *)
(***************************************************************************)
\* the fields read with game_result.get(name, default), in the order of the
\* assignments
SimpleFields == <<
    <<"objectId", Str("")>>,
    <<"adversary", Str("")>>,
    <<"adversaryLevel", Str("")>>,
    <<"scenario", Str("")>>,
    <<"usingEvents", Bool(FALSE)>>,
    <<"usingTokens", Bool(FALSE)>>,
    <<"isMultiplayer", Bool(FALSE)>>,
    <<"waveNumber", Str("")>>,
    <<"endingResult", Str("")>>,
    <<"blightCard", Str("")>>,
    <<"blightCardFlipped", Bool(FALSE)>>,
    <<"blightRemaining", Str("")>>,
    <<"score", Str("")>>,
    <<"turn", Str("")>>,
    <<"invaderCardsInDeck", Str("")>>,
    <<"invaderCardsNotInDeck", Str("")>>,
    <<"blightOnIsland", Str("")>>,
    <<"dahanOnIsland", Str("")>>,
    <<"terrorLevel", Str("")>>,
    <<"installationId", Str("")>> >>

\* the fields read with game_result.get(name, '') after endDate
PlainDateFields == <<"createdAt", "updatedAt">>

\* the fields given to flatten_value with the default []
ArrayFields == <<"spirits", "boards", "powerProgressionSpirits", "practiceModes",
                 "powerCardsInDiscard", "emptyPresenceTrackNodes">>

\* a slip of EndDateCell: the date rule of flatten_value is used instead
EndDateCell_FlattenValue(g) == flatten_value(Get(g, "endDate", Dict(<<>>)))

\* row['endDate']
EndDateCell(g) ==
    LET end_date == Get(g, "endDate", Dict(<<>>))
    IN IF IsDict(end_date) /\ HasKey(end_date, "iso")
       THEN Item(end_date, "iso")
       ELSE Str("")

\* a slip of PowerCardsCell: the list of cards is not joined
PowerCardsCell_ListNotJoined(g) ==
    LET power_cards_owned == Get(g, "powerCardsOwned", Dict(<<>>))
    IN IF Truthy(power_cards_owned)
       THEN Str(Join("; ", [j \in 1..Len(power_cards_owned.pairs) |->
                power_cards_owned.pairs[j][1] \o ": " \o
                PyStr(power_cards_owned.pairs[j][2])]))
       ELSE Str("")

\* row['powerCardsOwned'], for a powerCardsOwned that is falsy or a dict
PowerCardsCell(g) ==
    LET power_cards_owned == Get(g, "powerCardsOwned", Dict(<<>>))
    IN IF Truthy(power_cards_owned)
       THEN Str(Join("; ", [j \in 1..Len(power_cards_owned.pairs) |->
                LET cards == power_cards_owned.pairs[j][2]
                IN power_cards_owned.pairs[j][1] \o ": " \o
                   (IF IsList(cards)
                    THEN Join(", ", [c \in 1..Len(cards.items) |-> PyStr(cards.items[c])])
                    ELSE PyStr(cards))]))
       ELSE Str("")

\* extract_fields raises AttributeError: game_result has no .get, or a truthy
\* powerCardsOwned has no .items
ExtractRaises(g) ==
    \/ ~IsDict(g)
    \/ LET power_cards_owned == Get(g, "powerCardsOwned", Dict(<<>>))
       IN Truthy(power_cards_owned) /\ ~IsDict(power_cards_owned)

\* the row as the sequence of its <<column, value>> items, in insertion order
RowItems(g) ==
    [j \in 1..Len(SimpleFields) |->
        <<SimpleFields[j][1], Get(g, SimpleFields[j][1], SimpleFields[j][2])>>]
    \o << <<"endDate", EndDateCell(g)>> >>
    \o [j \in 1..Len(PlainDateFields) |->
        <<PlainDateFields[j], Get(g, PlainDateFields[j], Str(""))>>]
    \o [j \in 1..Len(ArrayFields) |->
        <<ArrayFields[j], flatten_value(Get(g, ArrayFields[j], List(<<>>)))>>]
    \o << <<"layout", flatten_value(Get(g, "layout", Dict(<<>>)))>> >>
    \o << <<"powerCardsOwned", PowerCardsCell(g)>> >>

\* a slip of extract_fields: a simple field the record lacks gets no column
extract_fields_PresentOnly(g) ==
    IF ExtractRaises(g) THEN [raised |-> TRUE, row |-> <<>>]
    ELSE [raised |-> FALSE,
          row |-> SelectSeq(RowItems(g),
                     LAMBDA item :
                        \/ HasKey(g, item[1])
                        \/ \A j \in 1..Len(SimpleFields) : SimpleFields[j][1] # item[1])]

\* the outcome of extract_fields(game_result): an exception or the row
extract_fields(g) ==
    IF ExtractRaises(g) THEN [raised |-> TRUE, row |-> <<>>]
    ELSE [raised |-> FALSE, row |-> RowItems(g)]

\* row[column], for a column the row has
Cell(r, column) == r[CHOOSE j \in 1..Len(r) : r[j][1] = column][2]

(***************************************************************************)
(* extract_fields called once on a record                                  *)
(***************************************************************************)
\* the record keys the calls draw from: a simple field with default '', one
\* with default False, the date fields, an array field, layout,
\* powerCardsOwned and a key extract_fields does not read
RecordKeys == {"objectId", "usingEvents", "endDate", "createdAt", "updatedAt",
               "spirits", "layout", "powerCardsOwned", "extra"}

\* game_result is: a scalar or an empty container; a record of one field, of at
\* most MaxNodes nodes for powerCardsOwned (object, array, item) and of fewer
\* than MaxNodes for the other fields; or a record of two fields whose values
\* are scalars or empty containers
InitExtract ==
    /\ pc = "extract_fields"
    /\ \/ game_result \in TopScalars \cup Inner.V[1]
       \/ IsWrapped(game_result, "powerCardsOwned", MaxNodes)
       \/ \E key \in RecordKeys \ {"powerCardsOwned"} :
              IsWrapped(game_result, key, MaxNodes - 1)
       \/ \E ks \in KeySeqs(RecordKeys, 2) : \E v1, v2 \in TopScalars \cup Inner.V[1] :
              game_result = Dict(<< <<ks[1], v1>>, <<ks[2], v2>> >>)
    /\ row = Unset
    /\ value = Unset
    /\ flat = Unset
    /\ MainIdle

ExtractCall ==
    /\ pc = "extract_fields"
    /\ row' = extract_fields(game_result)
    /\ pc' = "returned"
    /\ UNCHANGED <<value, flat, game_result, input_file, data, i, rows,
                   stdout, stderr, exit_status, output_file>>

NextExtract == ExtractCall

SpecExtract == InitExtract /\ [][NextExtract]_vars

\* extract_fields has returned a row
RowReturned == pc = "returned" /\ ~row.raised

\* a Python scalar: str, int or bool (a bool is an int)
IsScalar(v) == v.tag \in {"str", "num", "bool"}

\* C3: every value of a returned row is a string or a number, never a list, an
\* object or null
C3_ScalarCells ==
    RowReturned => \A j \in 1..Len(row.row) : IsScalar(row.row[j][2])

\* the ISO-extraction rule holds of the column: the field's 'iso' value when
\* the field is an object containing 'iso', the empty string otherwise
IsoRule(column) ==
    IF /\ HasKey(game_result, column)
       /\ IsDict(Item(game_result, column))
       /\ HasKey(Item(game_result, column), "iso")
    THEN \E j \in 1..Len(Item(game_result, column).pairs) :
            /\ Item(game_result, column).pairs[j][1] = "iso"
            /\ Cell(row.row, column) = Item(game_result, column).pairs[j][2]
    ELSE Cell(row.row, column) = Str("")

\* the column holds the record's field unchanged, the empty string without it
PassedThrough(column) ==
    \/ \E j \in 1..Len(game_result.pairs) :
            game_result.pairs[j] = <<column, Cell(row.row, column)>>
    \/ ~HasKey(game_result, column) /\ Cell(row.row, column) = Str("")

\* C9 as claimed: the ISO-extraction rule holds of at least two of the columns
\* endDate, createdAt and updatedAt
C9_TwoIsoDateFields ==
    RowReturned =>
        Cardinality({c \in {"endDate", "createdAt", "updatedAt"} : IsoRule(c)}) >= 2

\* C9 as amended: the ISO-extraction rule holds of endDate alone; createdAt and
\* updatedAt hold the record's field unchanged, the empty string without it
C9_OneIsoDateField ==
    RowReturned =>
        /\ IsoRule("endDate")
        /\ PassedThrough("createdAt")
        /\ PassedThrough("updatedAt")

C9_Witness ==
    /\ RowReturned
    /\ game_result = Dict(<< <<"endDate",
            Dict(<< <<"__type", Str("Date")>>, <<"iso", Str("a")>> >>)>> >>)
    /\ Cell(row.row, "endDate") = Str("a")

\* every value of the object is an array
IsOwnershipMap(v) ==
    IsDict(v) /\ \A j \in 1..Len(v.pairs) : IsList(v.pairs[j][2])

RECURSIVE OwnedText(_)
\* the "category: item1, item2" entries joined with "; ", in key order
OwnedText(pairs) ==
    LET entry == pairs[1][1] \o ": " \o ItemsText(pairs[1][2].items)
    IN IF Len(pairs) = 1 THEN entry ELSE entry \o "; " \o OwnedText(Tail(pairs))

ExampleOwned ==
    Dict(<< <<"SpiritA", List(<<Str("Card1"), Str("Card2")>>)>>,
            <<"SpiritB", List(<<Str("Card3")>>)>> >>)

\* the powerCardsOwned column of the record that holds ExampleOwned
ExampleOwnedCell ==
    Cell(extract_fields(Dict(<< <<"powerCardsOwned", ExampleOwned>> >>)).row,
         "powerCardsOwned")

\* C10: a powerCardsOwned mapping of categories to lists gives the
\* "category: item1, item2" entries joined with "; ", categories and items in
\* their original order; an absent or empty powerCardsOwned gives ""
C10_PowerCardsOwned ==
    /\ ExampleOwnedCell = Str("SpiritA: Card1, Card2; SpiritB: Card3")
    /\ RowReturned =>
        IF ~HasKey(game_result, "powerCardsOwned")
        THEN Cell(row.row, "powerCardsOwned") = Str("")
        ELSE LET owned == Item(game_result, "powerCardsOwned")
             IN IsOwnershipMap(owned) =>
                    Cell(row.row, "powerCardsOwned") =
                        IF owned.pairs = <<>> THEN Str("")
                        ELSE Str(OwnedText(owned.pairs))

C10_Witness ==
    /\ RowReturned
    /\ game_result = Dict(<< <<"powerCardsOwned",
            Dict(<< <<"x", List(<<Str("a"), Num(1)>>)>> >>)>> >>)
    /\ Cell(row.row, "powerCardsOwned") = Str("x: a, 1")

(***************************************************************************)
(* main                                                                    *)
(***************************************************************************)
\* the longest 'results' array
MaxRecords == 3

\* the records of the 'results' arrays: three on which extract_fields raises
\* and five on which it returns, with different keys in different orders
MainRecords == {
    None,
    Str("a"),
    Dict(<< <<"powerCardsOwned", Bool(TRUE)>> >>),
    Dict(<<>>),
    Dict(<< <<"objectId", Str("a")>> >>),
    Dict(<< <<"extra", Num(1)>>, <<"objectId", Str("Date")>> >>),
    Dict(<< <<"spirits", List(<<Str("a"), Num(1)>>)>>, <<"usingEvents", Bool(TRUE)>> >>),
    Dict(<< <<"powerCardsOwned", Dict(<< <<"x", List(<<Str("a")>>)>> >>)>> >>) }

\* what open() and json.load() meet: no file, a file that is not JSON, or a
\* JSON object, with or without a 'results' array
InputFiles ==
    {[state |-> "missing", doc |-> Unset], [state |-> "invalid", doc |-> Unset]}
    \cup {[state |-> "json", doc |-> Dict(<<>>)],
          [state |-> "json", doc |-> Dict(<< <<"count", Num(1)>> >>)]}
    \cup {[state |-> "json", doc |-> Dict(<< <<"results", List(rs)>> >>)] :
            rs \in UNION {[1..n -> MainRecords] : n \in 0..MaxRecords}}

\* csv.writer's text of a field: '' for None, str(field) otherwise
CsvField(v) == IF IsNone(v) THEN "" ELSE PyStr(v)

\* list(r.keys())
RowKeys(r) == [j \in 1..Len(r) |-> r[j][1]]

\* DictWriter._dict_to_list raises ValueError: the row has a key that is no
\* field name
WrongFields(r, fieldnames) ==
    \E j \in 1..Len(r) : \A f \in 1..Len(fieldnames) : fieldnames[f] # r[j][1]

\* the fields DictWriter writes for a row: rowdict.get(key, '') per field name
CsvLine(r, fieldnames) ==
    [f \in 1..Len(fieldnames) |->
        IF \E j \in 1..Len(r) : r[j][1] = fieldnames[f]
        THEN CsvField(Cell(r, fieldnames[f]))
        ELSE ""]

Init ==
    /\ pc = "read"
    /\ input_file \in InputFiles
    /\ data = Unset
    /\ i = 0
    /\ rows = <<>>
    /\ stdout = <<>>
    /\ stderr = <<>>
    /\ exit_status = <<>>
    /\ output_file = NoFile
    /\ value = Unset
    /\ flat = Unset
    /\ game_result = Unset
    /\ row = Unset

\* with open(input_file) as f: data = json.load(f), and the two except clauses
ReadInput ==
    /\ pc = "read"
    /\ stdout' = Append(stdout, [msg |-> "Reading", n |-> 0])
    /\ IF input_file.state = "missing"
       THEN /\ stderr' = Append(stderr, [msg |-> "not found", index |-> 0])
            /\ exit_status' = <<1>>
            /\ pc' = "exited"
            /\ data' = data
       ELSE IF input_file.state = "invalid"
       THEN /\ stderr' = Append(stderr, [msg |-> "Invalid JSON", index |-> 0])
            /\ exit_status' = <<1>>
            /\ pc' = "exited"
            /\ data' = data
       ELSE /\ data' = input_file.doc
            /\ pc' = "check"
            /\ UNCHANGED <<stderr, exit_status>>
    /\ UNCHANGED <<value, flat, game_result, row, input_file, i, rows, output_file>>

\* if 'results' not in data: ... sys.exit(1)
CheckResults ==
    /\ pc = "check"
    /\ IF ~HasKey(data, "results")
       THEN /\ stderr' = Append(stderr, [msg |-> "'results' key not found", index |-> 0])
            /\ exit_status' = <<1>>
            /\ pc' = "exited"
            /\ stdout' = stdout
       ELSE /\ stdout' = Append(stdout, [msg |-> "Found game results",
                                         n |-> Len(Item(data, "results").items)])
            /\ pc' = "loop"
            /\ UNCHANGED <<stderr, exit_status>>
    /\ UNCHANGED <<value, flat, game_result, row, input_file, data, i, rows, output_file>>

\* a slip of ProcessRecord: the warning names the 0-based position
ProcessRecord_ZeroBased ==
    /\ pc = "loop"
    /\ i < Len(Item(data, "results").items)
    /\ LET outcome == extract_fields(Item(data, "results").items[i + 1])
       IN IF outcome.raised
          THEN /\ stderr' = Append(stderr, [msg |-> "Warning", index |-> i])
               /\ rows' = rows
          ELSE /\ rows' = Append(rows, outcome.row)
               /\ stderr' = stderr
    /\ i' = i + 1
    /\ UNCHANGED <<pc, value, flat, game_result, row, input_file, data,
                   stdout, exit_status, output_file>>

\* one iteration of: for i, game_result in enumerate(results)
ProcessRecord ==
    /\ pc = "loop"
    /\ i < Len(Item(data, "results").items)
    /\ LET outcome == extract_fields(Item(data, "results").items[i + 1])
       IN IF outcome.raised
          THEN /\ stderr' = Append(stderr, [msg |-> "Warning", index |-> i + 1])
               /\ rows' = rows
          ELSE /\ rows' = Append(rows, outcome.row)
               /\ stderr' = stderr
    /\ i' = i + 1
    /\ UNCHANGED <<pc, value, flat, game_result, row, input_file, data,
                   stdout, exit_status, output_file>>

\* the output file after writeheader() and writerows(rows): writerows stops
\* at the first row that has a wrong field
Written(fieldnames) ==
    LET bad == {j \in 1..Len(rows) : WrongFields(rows[j], fieldnames)}
        n == IF bad = {} THEN Len(rows)
             ELSE (CHOOSE j \in bad : \A k \in bad : j <= k) - 1
    IN [exists |-> TRUE,
        header |-> fieldnames,
        lines |-> [j \in 1..n |-> CsvLine(rows[j], fieldnames)]]

\* the messages printed around a successful write
Summary(fieldnames) ==
    << [msg |-> "Writing", n |-> 0],
       [msg |-> "Successfully converted game results", n |-> Len(rows)],
       [msg |-> "Columns", n |-> Len(fieldnames)] >>

\* a slip of Finish: the output file is opened before the rows are counted
Finish_OpenFirst ==
    /\ pc = "loop"
    /\ i = Len(Item(data, "results").items)
    /\ IF rows = <<>>
       THEN /\ stderr' = Append(stderr, [msg |-> "No valid game results", index |-> 0])
            /\ exit_status' = <<1>>
            /\ pc' = "exited"
            /\ output_file' = [exists |-> TRUE, header |-> <<>>, lines |-> <<>>]
            /\ stdout' = stdout
       ELSE /\ output_file' = Written(RowKeys(rows[1]))
            /\ stdout' = stdout \o Summary(RowKeys(rows[1]))
            /\ exit_status' = <<0>>
            /\ pc' = "done"
            /\ stderr' = stderr
    /\ UNCHANGED <<value, flat, game_result, row, input_file, data, i, rows>>

\* after the loop: if not rows: sys.exit(1); else the header is taken from
\* the first row and the file is written, and the process ends
Finish ==
    /\ pc = "loop"
    /\ i = Len(Item(data, "results").items)
    /\ IF rows = <<>>
       THEN /\ stderr' = Append(stderr, [msg |-> "No valid game results", index |-> 0])
            /\ exit_status' = <<1>>
            /\ pc' = "exited"
            /\ output_file' = output_file
            /\ stdout' = stdout
       ELSE LET fieldnames == RowKeys(rows[1])
            IN /\ output_file' = Written(fieldnames)
               /\ IF \E j \in 1..Len(rows) : WrongFields(rows[j], fieldnames)
                  THEN /\ stdout' = Append(stdout, [msg |-> "Writing", n |-> 0])
                       /\ exit_status' = <<1>>
                       /\ pc' = "exited"
                  ELSE /\ stdout' = stdout \o Summary(fieldnames)
                       /\ exit_status' = <<0>>
                       /\ pc' = "done"
               /\ stderr' = stderr
    /\ UNCHANGED <<value, flat, game_result, row, input_file, data, i, rows>>

Next == ReadInput \/ CheckResults \/ ProcessRecord \/ Finish

Spec == Init /\ [][Next]_vars

\* main has ended
Terminated == pc \in {"done", "exited"}

\* the 'results' array of the input document
Records == Item(input_file.doc, "results").items

HasResults == input_file.state = "json" /\ HasKey(input_file.doc, "results")

RECURSIVE Survivors(_)
\* the rows of the records that extract without raising, in array order
Survivors(rs) ==
    IF rs = <<>> THEN <<>>
    ELSE (IF extract_fields(Head(rs)).raised THEN <<>>
          ELSE <<extract_fields(Head(rs)).row>>) \o Survivors(Tail(rs))

RECURSIVE Warnings(_, _)
\* one warning per record that raises, naming its position counted from first
Warnings(rs, first) ==
    IF rs = <<>> THEN <<>>
    ELSE (IF extract_fields(Head(rs)).raised
          THEN <<[msg |-> "Warning", index |-> first]>>
          ELSE <<>>) \o Warnings(Tail(rs), first + 1)

\* C1: the records that raise are skipped with one warning each, naming the
\* 1-based position; the CSV data rows are the rows of the other records, one
\* per record in array order; with at least one such record the run ends with
\* exit status 0
C1_SkipAndContinue ==
    /\ pc = "loop" =>
        /\ rows = Survivors(SubSeq(Records, 1, i))
        /\ stderr = Warnings(SubSeq(Records, 1, i), 1)
    /\ HasResults /\ Terminated =>
        LET survivors == Survivors(Records)
        IN survivors # <<>> =>
            /\ pc = "done"
            /\ exit_status = <<0>>
            /\ stderr = Warnings(Records, 1)
            /\ output_file.exists
            /\ output_file.lines =
                  [j \in 1..Len(survivors) |->
                      [f \in 1..Len(survivors[j]) |-> CsvField(survivors[j][f][2])]]
            /\ Len(output_file.lines) + Len(stderr) = Len(Records)

C1_Witness ==
    /\ pc = "done"
    /\ Len(Records) = 3
    /\ ~extract_fields(Records[1]).raised
    /\ ~extract_fields(Records[2]).raised
    /\ extract_fields(Records[3]).raised
    /\ Len(output_file.lines) = 2
    /\ stderr = <<[msg |-> "Warning", index |-> 3]>>
    /\ exit_status = <<0>>

\* the input is one of the fatal cases: no file, no JSON, no 'results' key, or
\* no record that extracts without raising
Fatal ==
    \/ input_file.state \in {"missing", "invalid"}
    \/ ~HasKey(input_file.doc, "results")
    \/ \A j \in 1..Len(Records) : ExtractRaises(Records[j])

\* C2: on every fatal path the process ends with exit status 1 and the output
\* file is never opened; the output file is written only after all records
\* have been processed and at least one row exists
C2_FatalPaths ==
    /\ Fatal => output_file = NoFile
    /\ Fatal /\ Terminated => exit_status = <<1>> /\ pc = "exited"
    /\ Fatal /\ ~Terminated => ENABLED Next
    /\ exit_status = <<1>> => output_file = NoFile
    /\ output_file.exists => i = Len(Records) /\ rows # <<>>

C2_Witness ==
    /\ pc = "exited"
    /\ HasResults
    /\ Len(Records) = 2
    /\ i = 2
    /\ exit_status = <<1>>
    /\ output_file = NoFile

\* the columns of the schema, in the order extract_fields assigns them
Columns == <<
    "objectId", "adversary", "adversaryLevel", "scenario", "usingEvents",
    "usingTokens", "isMultiplayer", "waveNumber", "endingResult", "blightCard",
    "blightCardFlipped", "blightRemaining", "score", "turn",
    "invaderCardsInDeck", "invaderCardsNotInDeck", "blightOnIsland",
    "dahanOnIsland", "terrorLevel", "installationId", "endDate", "createdAt",
    "updatedAt", "spirits", "boards", "powerProgressionSpirits",
    "practiceModes", "powerCardsInDiscard", "emptyPresenceTrackNodes",
    "layout", "powerCardsOwned" >>

\* C4: every row has the columns of the schema in schema order, whatever keys
\* its record has; the header taken from the first row is that of every row
\* written, and every row is written with one field per header column
C4_FixedColumns ==
    /\ \A j \in 1..Len(rows) : RowKeys(rows[j]) = Columns
    /\ output_file.exists =>
        /\ output_file.header = Columns
        /\ Len(output_file.lines) = Len(rows)
        /\ \A j \in 1..Len(rows) :
              /\ RowKeys(rows[j]) = output_file.header
              /\ Len(output_file.lines[j]) = Len(output_file.header)
        /\ pc = "done"

C4_Witness ==
    /\ pc = "done"
    /\ Len(Records) = 2
    /\ IsDict(Records[1]) /\ Keys(Records[1]) = <<"extra", "objectId">>
    /\ IsDict(Records[2]) /\ Keys(Records[2]) = <<"spirits", "usingEvents">>
    /\ Len(output_file.lines) = 2
    /\ output_file.header = RowKeys(rows[2])

====
